---- MODULE Spec2Model ----
(***************************************************************************)
(* react-toy-dnd: the box selection / drag interaction state machines.     *)
(*                                                                         *)
(* The repository holds several step-by-step variants of one component.    *)
(* Three of them are modelled here, each from its own source:              *)
(*   "S"  single-select drag with live collision      (src/unnamed/part_002)*)
(*   "M"  multi-select drag with marquee selection    (src/unnamed/part_003)*)
(*   "R"  multi-select drag, collision on release (src/unnamed/part_000:1-432)*)
(* One pointer event (mousedown / mousemove / mouseup on window) is one    *)
(* action: it runs every listener registered for the event, in the order   *)
(* of registration, and every store.dispatch runs the whole middleware     *)
(* chain synchronously.                                                    *)
(*                                                                         *)
(* Encodings.  JavaScript `undefined` is Undefined for an object-typed     *)
(* field (state.moving) and NoId for a string-typed one (clicked in "S",   *)
(* the event target when no box is hit).  A Map<string, DOMRect> is a      *)
(* sequence of <<id, rect>> pairs with distinct ids, in insertion order.   *)
(* A run of a handler is threaded through a record                         *)
(*   w = [state, calls, err]                                               *)
(* the store state, the responder callbacks invoked so far (each with the  *)
(* store state at the moment of the call) and the error thrown, if any.    *)
(***************************************************************************)
EXTENDS Integers, Sequences, FiniteSets, TLC

VARIABLES
    variant,                 \* which source variant this store belongs to
    state,                   \* the redux store state (ReduxState)
    isDragging,              \* useTranslate: isDragging.current / useBoxMove: mouseStateRef = 'MOVE'
    dragStartOffset,         \* useTranslate: dragStartOffset.current / useBoxMove: mousePositionRef
    stateRef,                \* useBoxRangeSelector: stateRef.current ('IDLE' | 'MOVE')
    originMousePositionRef,  \* useBoxRangeSelector: originMousePositionRef.current
    registry,                \* createBoxRegistry: the registry array
    hasRef,                  \* ids of the boxes whose getRef() returns an element
    domRect,                 \* id -> what el.getBoundingClientRect() returns now
    lastEvent,               \* the pointer event handled last
    dispatched,              \* actions the interpreters dispatched while handling it
    calls,                   \* responder callbacks invoked while handling it
    err,                     \* error thrown while handling it ("none" if none)
    gestureOpen,             \* a MOVE_START was dispatched by a listener and no MOVE_END since
    raw,                     \* how many actions were dispatched to the store directly
    style,                   \* ClickedGizmo of the clicked box: its style state
    overlapCall,             \* a call of the overlap test: its arguments and what it returned
    dispatchLog              \* the calls of store.dispatch while handling the last event:
                             \* <<"enter", type>> and, when it returned, <<"return", type>>

vars == <<variant, state, isDragging, dragStartOffset, stateRef,
          originMousePositionRef, registry, hasRef, domRect,
          lastEvent, dispatched, calls, err, gestureOpen, raw, style, overlapCall,
          dispatchLog>>

-----------------------------------------------------------------------------
(* Bounds of the model *)

MaxX == 1
MaxY == 1
MaxRaw == 1
MaxSelects == 2
MaxBoxes == 3
MaxEntries == 3
MaxIdsLen == 2
MaxPos == 1
MaxSize == 2
MaxOffset == 1

Ids == {"0", "1"}
Variants == {"S", "M", "R"}

Undefined == [undefined |-> TRUE]
NoId == "undefined"

\* The pointer positions: a grid of step 2, so that the edges of the boxes can
\* lie between them.
Points == [x : {2 * i : i \in 0..MaxX}, y : {2 * j : j \in 0..MaxY}]

Rect(x, y, width, height) == [x |-> x, y |-> y, width |-> width, height |-> height]

\* two boxes next to each other, touching along an edge
SideBySide == [i \in Ids |-> IF i = "0" THEN Rect(-1, -1, 2, 2) ELSE Rect(1, -1, 2, 2)]

\* The placements of the boxes on the surface (owned by the caller).
Layouts ==
    { [i \in Ids |-> IF i = "0" THEN Rect(-1, -1, 2, 2) ELSE Rect(1, -1, 2, 2)],
      [i \in Ids |-> IF i = "0" THEN Rect(-1, -1, 3, 2) ELSE Rect(1, 1, 2, 2)],
      [i \in Ids |-> IF i = "0" THEN Rect(-1, -1, 3, 2) ELSE Rect(1, -1, 2, 2)] }

-----------------------------------------------------------------------------
(* Helpers for JavaScript values *)

\* Array.prototype.indexOf(x) !== -1
Has(arr, x) == \E k \in 1..Len(arr) : arr[k] = x

\* the set of elements of an array
Elems(arr) == {arr[k] : k \in 1..Len(arr)}

\* the object literal without the spread of base
Spread_overOnly(base, over) == over

\* {...base, ...over}; spreading undefined contributes no field
Spread(base, over) ==
    LET b == IF base = Undefined THEN {} ELSE DOMAIN base
    IN  [k \in b \cup DOMAIN over |-> IF k \in DOMAIN over THEN over[k] ELSE base[k]]

\* Map.prototype.get; NoRect when the key is absent
MapHas(m, id) == \E k \in 1..Len(m) : m[k][1] = id
MapGet(m, id) == m[CHOOSE k \in 1..Len(m) : m[k][1] = id][2]

\* Map.prototype.set: overwrite in place, or append
MapSet(m, id, r) ==
    IF MapHas(m, id)
    THEN [k \in 1..Len(m) |-> IF m[k][1] = id THEN <<id, r>> ELSE m[k]]
    ELSE Append(m, <<id, r>>)

MapKeys(m) == {m[k][1] : k \in 1..Len(m)}

\* a responder callback is invoked: record it with the store state of that moment
Call(w, fn, id, dx, dy) ==
    [w EXCEPT !.calls = Append(@, [fn |-> fn, id |-> id, dx |-> dx, dy |-> dy,
                                   store |-> w.state])]

\* W(s): a handler run that starts from store state s
W(s) == [state |-> s, calls |-> <<>>, err |-> "none", log |-> <<>>]

\* store.dispatch(action) is entered; it returns unless an error was thrown inside
enter(w, action) == [w EXCEPT !.log = Append(@, <<"enter", action.type>>)]
return(w, action) ==
    IF w.err = "none" THEN [w EXCEPT !.log = Append(@, <<"return", action.type>>)] ELSE w

\* the snapshot loop without the test of el: every registered box gets a rect
snapshotRects_all(reg, refs, dom, rects) ==
    rects \o [k \in 1..Len(reg) |-> <<reg[k].id, dom[reg[k].id]>>]

\* for (const box of registry.getAll()) { el = box.getRef(); if (!el) continue;
\*   rects.set(box.id, el.getBoundingClientRect()) }
\* (the same loop is in part_003:120-126 and part_000:156-161)
RECURSIVE snapshotRects(_, _, _, _)
snapshotRects(reg, refs, dom, rects) ==
    IF reg = <<>> THEN rects
    ELSE LET box == Head(reg)
         IN  IF box.id \notin refs
             THEN snapshotRects(Tail(reg), refs, dom, rects)
             ELSE snapshotRects(Tail(reg), refs, dom, MapSet(rects, box.id, dom[box.id]))

-----------------------------------------------------------------------------
(* Variant "S": single selection, live collision (src/unnamed/part_002)    *)

ReduxReducer_S(st, action) ==
    IF action.type = "CLICK"
    THEN [st EXCEPT !.clicked = action.boxId]
    ELSE IF action.type = "MOVE_START"
    THEN [st EXCEPT !.moving = [boxId |-> action.boxId, dx |-> 0, dy |-> 0,
                                rects |-> action.rects, collision |-> FALSE]]
    ELSE IF action.type = "MOVE"
    THEN [st EXCEPT !.moving = Spread(st.moving, [dx |-> action.dx, dy |-> action.dy])]
    ELSE IF action.type = "MOVE_END"
    THEN [st EXCEPT !.moving = Undefined]
    ELSE IF action.type = "SET_COLLISION_STATE"
    THEN IF st.moving = Undefined THEN st
         ELSE [st EXCEPT !.moving = Spread(st.moving, [collision |-> action.collision])]
    ELSE st

\* collisionCheck with the offset left out of the right edge of rect1
collisionCheck_rightEdgeUnmoved(rect1, rect2, offsetX, offsetY) ==
    /\ rect1.x + offsetX < rect2.x + rect2.width
    /\ rect1.x + rect1.width > rect2.x
    /\ rect1.y + offsetY < rect2.y + rect2.height
    /\ rect1.height + rect1.y + offsetY > rect2.y

collisionCheck(rect1, rect2, offsetX, offsetY) ==
    /\ rect1.x + offsetX < rect2.x + rect2.width
    /\ rect1.x + offsetX + rect1.width > rect2.x
    /\ rect1.y + offsetY < rect2.y + rect2.height
    /\ rect1.height + rect1.y + offsetY > rect2.y

\* the innermost dispatch of the store: the reducer
next_S(w, action) == [w EXCEPT !.state = ReduxReducer_S(w.state, action)]

responderMiddleware_S(w, action) ==
    IF action.type = "MOVE"
    THEN LET w1 == next_S(w, action)
             moving == w1.state.moving
         IN  IF moving = Undefined THEN w1
             ELSE LET w2 == Call(w1, "onMove",
                                 IF "boxId" \in DOMAIN moving THEN moving.boxId ELSE NoId,
                                 moving.dx, moving.dy)
                  \* action.type is not MOVE_END: the else branch forwards it again
                  IN  next_S(w2, action)
    ELSE IF action.type = "MOVE_END"
    THEN LET moving == w.state.moving
         IN  IF moving = Undefined THEN w
             ELSE next_S(Call(w, "onMoveEnd",
                              IF "boxId" \in DOMAIN moving THEN moving.boxId ELSE NoId,
                              moving.dx, moving.dy),
                         action)
    ELSE next_S(w, action)

RECURSIVE dispatch_S(_, _)

collisionCheckerMiddleware(w, action) ==
    IF action.type \in {"MOVE_START", "MOVE"}
    THEN LET w1 == responderMiddleware_S(w, action)
             moving == w1.state.moving
         IN  IF moving = Undefined
             THEN [w1 EXCEPT !.err = "Should be in moving state"]
             ELSE IF "rects" \notin DOMAIN moving
             THEN [w1 EXCEPT !.err = "TypeError"]   \* state.moving.rects.get of undefined
             ELSE IF ~MapHas(moving.rects, moving.boxId)
             THEN w1
             ELSE LET movingRect == MapGet(moving.rects, moving.boxId)
                      hit == \E k \in 1..Len(moving.rects) :
                                /\ moving.rects[k][1] # moving.boxId
                                /\ collisionCheck(movingRect, moving.rects[k][2],
                                                  moving.dx, moving.dy)
                  IN  dispatch_S(w1, [type |-> "SET_COLLISION_STATE", collision |-> hit])
    ELSE responderMiddleware_S(w, action)

\* store.dispatch: applyMiddleware(collisionCheckerMiddleware(), responderMiddleware(..))
dispatch_S(w, action) == return(collisionCheckerMiddleware(enter(w, action), action), action)

\* What one listener run leaves behind: the handler run w, the refs of the
\* interpreters, and the actions the interpreters dispatched.
Out(w, dragging, offset, sref, origin, acts) ==
    [w |-> w, isDragging |-> dragging, dragStartOffset |-> offset,
     stateRef |-> sref, originMousePositionRef |-> origin, dispatched |-> acts]

\* useTranslate (mousedown) without the check of isDragging
MouseDown_S_nested(target, p) ==
    LET click == [type |-> "CLICK", boxId |-> target]
        w1 == IF target = NoId THEN W(state) ELSE dispatch_S(W(state), click)
        starts == target # NoId
        rects == snapshotRects(registry, hasRef, domRect, <<>>)
        start == [type |-> "MOVE_START", boxId |-> target, rects |-> rects]
        w2 == IF starts THEN dispatch_S(w1, start) ELSE w1
    IN  Out(w2, isDragging \/ starts, IF starts THEN p ELSE dragStartOffset,
            stateRef, originMousePositionRef,
            (IF target = NoId THEN <<>> ELSE <<click>>) \o (IF starts THEN <<start>> ELSE <<>>))

\* useClick (mousedown), then useTranslate (mousedown)
MouseDown_S(target, p) ==
    LET click == [type |-> "CLICK", boxId |-> target]
        w1 == IF target = NoId THEN W(state) ELSE dispatch_S(W(state), click)
        starts == ~isDragging /\ target # NoId
        rects == snapshotRects(registry, hasRef, domRect, <<>>)
        start == [type |-> "MOVE_START", boxId |-> target, rects |-> rects]
        w2 == IF starts THEN dispatch_S(w1, start) ELSE w1
    IN  Out(w2, isDragging \/ starts, IF starts THEN p ELSE dragStartOffset,
            stateRef, originMousePositionRef,
            (IF target = NoId THEN <<>> ELSE <<click>>) \o (IF starts THEN <<start>> ELSE <<>>))

\* useTranslate (mousemove) without the check of isDragging
MouseMove_S_unguarded(p) ==
    LET move == [type |-> "MOVE", dx |-> p.x - dragStartOffset.x,
                                  dy |-> p.y - dragStartOffset.y]
    IN  Out(dispatch_S(W(state), move), isDragging, dragStartOffset,
            stateRef, originMousePositionRef, <<move>>)

\* useTranslate (mousemove) dispatching the pointer position as the offset
MouseMove_S_absolute(p) ==
    LET move == [type |-> "MOVE", dx |-> p.x, dy |-> p.y]
    IN  IF ~isDragging
        THEN Out(W(state), isDragging, dragStartOffset, stateRef, originMousePositionRef, <<>>)
        ELSE Out(dispatch_S(W(state), move), isDragging, dragStartOffset,
                 stateRef, originMousePositionRef, <<move>>)

\* useTranslate (mousemove)
MouseMove_S(p) ==
    LET move == [type |-> "MOVE", dx |-> p.x - dragStartOffset.x,
                                  dy |-> p.y - dragStartOffset.y]
    IN  IF ~isDragging
        THEN Out(W(state), isDragging, dragStartOffset, stateRef, originMousePositionRef, <<>>)
        ELSE Out(dispatch_S(W(state), move), isDragging, dragStartOffset,
                 stateRef, originMousePositionRef, <<move>>)

\* useTranslate (mouseup) leaving isDragging.current as it is
MouseUp_S_stillDragging(p) ==
    IF ~isDragging
    THEN Out(W(state), isDragging, dragStartOffset, stateRef, originMousePositionRef, <<>>)
    ELSE Out(dispatch_S(W(state), [type |-> "MOVE_END"]), isDragging, dragStartOffset,
             stateRef, originMousePositionRef, <<[type |-> "MOVE_END"]>>)

\* useTranslate (mouseup)
MouseUp_S(p) ==
    IF ~isDragging
    THEN Out(W(state), isDragging, dragStartOffset, stateRef, originMousePositionRef, <<>>)
    ELSE Out(dispatch_S(W(state), [type |-> "MOVE_END"]), FALSE, dragStartOffset,
             stateRef, originMousePositionRef, <<[type |-> "MOVE_END"]>>)

\* Box = connect(mapState): what the render callback of box boxId receives
mapState_S(st, boxId) ==
    LET clicked == st.clicked = boxId
        present == st.moving # Undefined
    IN  [clicked |-> clicked,
         collided |-> /\ clicked
                      /\ present
                      /\ "collision" \in DOMAIN st.moving
                      /\ st.moving.collision,
         dx |-> IF present /\ "boxId" \in DOMAIN st.moving /\ st.moving.boxId = boxId
                THEN st.moving.dx ELSE 0,
         dy |-> IF present /\ "boxId" \in DOMAIN st.moving /\ st.moving.boxId = boxId
                THEN st.moving.dy ELSE 0]

-----------------------------------------------------------------------------
(* Variant "M": multi selection, drag and marquee (src/unnamed/part_003)   *)

\* A CLICK / SET_CLICKED action.  kind is the JavaScript type of boxId:
\* "undefined", "string" (boxId is an id) or "array" (boxId is a sequence).
ClickAction(type, kind, boxId, multiple) ==
    [type |-> type, kind |-> kind, boxId |-> boxId, multiple |-> multiple]

\* the push as a filter of boxId against the list before the loop
pushNew_filter(nextClicked, boxId) ==
    nextClicked \o SelectSeq(boxId, LAMBDA id : ~Has(nextClicked, id))

\* the push loop without the indexOf check
pushNew_all(nextClicked, boxId) == nextClicked \o boxId

\* for (const id of boxId) { if (nextClicked.indexOf(id) !== -1) continue;
\*                           nextClicked.push(id) }
RECURSIVE pushNew(_, _)
pushNew(nextClicked, boxId) ==
    IF boxId = <<>> THEN nextClicked
    ELSE IF Has(nextClicked, Head(boxId))
    THEN pushNew(nextClicked, Tail(boxId))
    ELSE pushNew(Append(nextClicked, Head(boxId)), Tail(boxId))

\* the CLICK branch with toggling: ids that are all selected already are deselected
reduceClick_toggle(clicked, boxId, multiple) ==
    LET hasAll == Len(boxId) > 0 /\ \A k \in 1..Len(boxId) : Has(clicked, boxId[k])
    IN  IF hasAll THEN SelectSeq(clicked, LAMBDA id : ~Has(boxId, id))
        ELSE pushNew(IF multiple THEN clicked ELSE <<>>, boxId)

\* the CLICK branch without hasAll: a plain Select always starts from the empty list
reduceClick_replace(clicked, boxId, multiple) ==
    pushNew(IF multiple THEN clicked ELSE <<>>, boxId)

\* the CLICK branch of the reducer
reduceClick(clicked, boxId, multiple) ==
    LET hasAll == Len(boxId) > 0 /\ \A k \in 1..Len(boxId) : Has(clicked, boxId[k])
        nextClicked == IF multiple \/ hasAll THEN clicked ELSE <<>>
    IN  pushNew(nextClicked, boxId)

\* the reducer with a MOVE branch that adds the action's offset to the drag's
ReduxReducer_M_additive(st, action) ==
    IF action.type = "CLICK"
    THEN LET boxId == IF action.kind = "undefined" THEN <<>>
                      ELSE IF action.kind = "array" THEN action.boxId
                      ELSE <<action.boxId>>
         IN  [st EXCEPT !.clicked = reduceClick(st.clicked, boxId, action.multiple)]
    ELSE IF action.type = "MOVE_START"
    THEN [st EXCEPT !.moving = [boxId |-> action.boxId, dx |-> 0, dy |-> 0]]
    ELSE IF action.type = "MOVE"
    THEN [st EXCEPT !.moving = Spread(st.moving, [dx |-> st.moving.dx + action.dx,
                                                  dy |-> st.moving.dy + action.dy])]
    ELSE IF action.type = "MOVE_END"
    THEN [st EXCEPT !.moving = Undefined]
    ELSE IF action.type = "SET_RECT_MAP"
    THEN [st EXCEPT !.rects = action.rects]
    ELSE st

ReduxReducer_M(st, action) ==
    IF action.type = "CLICK"
    THEN LET boxId == IF action.kind = "undefined" THEN <<>>
                      ELSE IF action.kind = "array" THEN action.boxId
                      ELSE <<action.boxId>>
         IN  [st EXCEPT !.clicked = reduceClick(st.clicked, boxId, action.multiple)]
    ELSE IF action.type = "MOVE_START"
    THEN [st EXCEPT !.moving = [boxId |-> action.boxId, dx |-> 0, dy |-> 0]]
    ELSE IF action.type = "MOVE"
    THEN [st EXCEPT !.moving = Spread(st.moving, [dx |-> action.dx, dy |-> action.dy])]
    ELSE IF action.type = "MOVE_END"
    THEN [st EXCEPT !.moving = Undefined]
    ELSE IF action.type = "SET_RECT_MAP"
    THEN [st EXCEPT !.rects = action.rects]
    ELSE st

\* checkCollision with the comparisons made non-strict
checkCollision_closed(rect1, rect2, offsetX, offsetY) ==
    /\ rect1.x + offsetX <= rect2.x + rect2.width
    /\ rect1.x + offsetX + rect1.width >= rect2.x
    /\ rect1.y + offsetY <= rect2.y + rect2.height
    /\ rect1.height + rect1.y + offsetY >= rect2.y

checkCollision(rect1, rect2, offsetX, offsetY) ==
    /\ rect1.x + offsetX < rect2.x + rect2.width
    /\ rect1.x + offsetX + rect1.width > rect2.x
    /\ rect1.y + offsetY < rect2.y + rect2.height
    /\ rect1.height + rect1.y + offsetY > rect2.y

\* the loop over moving.boxId left after its first iteration
callEach_firstOnly(w, fn, boxId, moving) ==
    IF boxId = <<>> THEN w
    ELSE Call(w, fn, Head(boxId), moving.dx, moving.dy)

\* for (const boxId of moving.boxId) responder.fn?.(boxId, moving.dx, moving.dy)
\* where the store holds w.state while the callbacks run
RECURSIVE callEach(_, _, _, _)
callEach(w, fn, boxId, moving) ==
    IF boxId = <<>> THEN w
    ELSE callEach(Call(w, fn, Head(boxId), moving.dx, moving.dy), fn, Tail(boxId), moving)

next_M(w, action) == [w EXCEPT !.state = ReduxReducer_M(w.state, action)]

RECURSIVE dispatch_M(_, _)

rectMapPublisherMiddleware(w, action) ==
    IF action.type = "PUBLISH_RECT_MAP"
    THEN LET rects == snapshotRects(registry, hasRef, domRect, <<>>)
             w1 == dispatch_M(w, [type |-> "SET_RECT_MAP", rects |-> rects])
         IN  next_M(next_M(w1, action), action)
    ELSE next_M(w, action)

responderMiddleware_M(w, action) ==
    IF action.type = "MOVE"
    THEN LET w1 == rectMapPublisherMiddleware(w, action)
             moving == w1.state.moving
         IN  IF moving = Undefined THEN w1
             ELSE IF "boxId" \notin DOMAIN moving
             THEN [w1 EXCEPT !.err = "TypeError"]   \* moving.boxId is not iterable
             ELSE \* action.type is not MOVE_END: the else branch forwards it again
                  rectMapPublisherMiddleware(callEach(w1, "onMove", moving.boxId, moving),
                                             action)
    ELSE IF action.type = "MOVE_END"
    THEN LET moving == w.state.moving
         IN  IF moving = Undefined THEN w
             ELSE IF "boxId" \notin DOMAIN moving
             THEN [w EXCEPT !.err = "TypeError"]
             ELSE rectMapPublisherMiddleware(callEach(w, "onMoveEnd", moving.boxId, moving),
                                             action)
    ELSE rectMapPublisherMiddleware(w, action)

\* store.dispatch: applyMiddleware(responderMiddleware(..), rectMapPublisherMiddleware(..))
dispatch_M(w, action) == return(responderMiddleware_M(enter(w, action), action), action)

\* useBoxRangeSelector (mousemove): the marquee rectangle and the ids it selects
marqueeRect(origin, p) ==
    LET x1 == IF origin.x < p.x THEN origin.x ELSE p.x
        x2 == IF origin.x > p.x THEN origin.x ELSE p.x
        y1 == IF origin.y < p.y THEN origin.y ELSE p.y
        y2 == IF origin.y > p.y THEN origin.y ELSE p.y
    IN  Rect(x1, y1, x2 - x1, y2 - y1)

marqueeHits(rect1, rects) ==
    SelectSeq([k \in 1..Len(rects) |-> rects[k][1]],
              LAMBDA id : checkCollision(rect1, MapGet(rects, id), 0, 0))

\* useBoxRangeSelector (mousemove), also registered for mouseup
rangeMove(w, sref, origin, p) ==
    IF sref # "MOVE" THEN w
    ELSE dispatch_M(w, ClickAction("CLICK", "array",
                                   marqueeHits(marqueeRect(origin, p), w.state.rects), FALSE))

rangeMoveActs(st, sref, origin, p) ==
    IF sref # "MOVE" THEN <<>>
    ELSE <<ClickAction("CLICK", "array", marqueeHits(marqueeRect(origin, p), st.rects), FALSE)>>

\* the mousedown listeners, useBoxRangeSelector without the check of stateRef
MouseDown_M_reentrant(target, p, shift) ==
    LET marquee == target = NoId
        publish == [type |-> "PUBLISH_RECT_MAP"]
        w1 == IF marquee THEN dispatch_M(W(state), publish) ELSE W(state)
        click == IF target = NoId THEN ClickAction("CLICK", "undefined", NoId, FALSE)
                 ELSE ClickAction("CLICK", "string", target, shift)
        w2 == dispatch_M(w1, click)
        starts == ~isDragging /\ target # NoId
        start == [type |-> "MOVE_START", boxId |-> w2.state.clicked]
        w3 == IF starts THEN dispatch_M(w2, start) ELSE w2
    IN  Out(w3, isDragging \/ starts, IF starts THEN p ELSE dragStartOffset,
            IF marquee THEN "MOVE" ELSE stateRef,
            IF marquee THEN p ELSE originMousePositionRef,
            (IF marquee THEN <<publish>> ELSE <<>>) \o <<click>>
                \o (IF starts THEN <<start>> ELSE <<>>))

\* useBoxRangeSelector (mousedown), useClick (mousedown), useTranslate (mousedown):
\* the layout effect of the child BoxRangeSelector registers its listener first
MouseDown_M(target, p, shift) ==
    LET marquee == stateRef = "IDLE" /\ target = NoId
        publish == [type |-> "PUBLISH_RECT_MAP"]
        w1 == IF marquee THEN dispatch_M(W(state), publish) ELSE W(state)
        click == IF target = NoId THEN ClickAction("CLICK", "undefined", NoId, FALSE)
                 ELSE ClickAction("CLICK", "string", target, shift)
        w2 == dispatch_M(w1, click)
        starts == ~isDragging /\ target # NoId
        start == [type |-> "MOVE_START", boxId |-> w2.state.clicked]
        w3 == IF starts THEN dispatch_M(w2, start) ELSE w2
    IN  Out(w3, isDragging \/ starts, IF starts THEN p ELSE dragStartOffset,
            IF marquee THEN "MOVE" ELSE stateRef,
            IF marquee THEN p ELSE originMousePositionRef,
            (IF marquee THEN <<publish>> ELSE <<>>) \o <<click>>
                \o (IF starts THEN <<start>> ELSE <<>>))

\* useTranslate (mousemove), then useBoxRangeSelector (mousemove)
MouseMove_M(p) ==
    LET move == [type |-> "MOVE", dx |-> p.x - dragStartOffset.x,
                                  dy |-> p.y - dragStartOffset.y]
        w1 == IF isDragging THEN dispatch_M(W(state), move) ELSE W(state)
        w2 == rangeMove(w1, stateRef, originMousePositionRef, p)
    IN  Out(w2, isDragging, dragStartOffset, stateRef, originMousePositionRef,
            (IF isDragging THEN <<move>> ELSE <<>>)
                \o rangeMoveActs(w1.state, stateRef, originMousePositionRef, p))

\* useTranslate (mouseup), useBoxRangeSelector (mousemove, then mouseup)
MouseUp_M(p) ==
    LET w1 == IF isDragging THEN dispatch_M(W(state), [type |-> "MOVE_END"]) ELSE W(state)
        w2 == rangeMove(w1, stateRef, originMousePositionRef, p)
    IN  Out(w2, FALSE, dragStartOffset, "IDLE", originMousePositionRef,
            (IF isDragging THEN <<[type |-> "MOVE_END"]>> ELSE <<>>)
                \o rangeMoveActs(w1.state, stateRef, originMousePositionRef, p))

\* Box = connect(mapState) of part_003: what the render callback of box boxId
\* receives.  state.moving?.boxId.indexOf(boxId) !== -1 is true when moving is
\* undefined (undefined !== -1) and throws when moving has no boxId.
mapState_M(st, boxId) ==
    LET thrown == st.moving # Undefined /\ "boxId" \notin DOMAIN st.moving
        inside == st.moving = Undefined \/ (~thrown /\ Has(st.moving.boxId, boxId))
        dx == IF st.moving = Undefined THEN 0       \* state.moving?.dx || 0
              ELSE IF st.moving.dx # 0 THEN st.moving.dx ELSE 0
        dy == IF st.moving = Undefined THEN 0
              ELSE IF st.moving.dy # 0 THEN st.moving.dy ELSE 0
    IN  [clicked |-> Has(st.clicked, boxId),
         offset |-> [x |-> IF inside THEN dx ELSE 0, y |-> IF inside THEN dy ELSE 0],
         err |-> IF thrown THEN "TypeError" ELSE "none"]

-----------------------------------------------------------------------------
(* Variant "R": multi selection, collision on release                      *)
(* (src/unnamed/part_000, lines 1-432)                                     *)

\* the reducer with a MOVE_END branch that also empties the selection
reducer_R_endDeselects(st, action) ==
    IF action.type = "SET_CLICKED"
    THEN LET boxId == IF action.kind = "array" THEN action.boxId ELSE <<action.boxId>>
         IN  [st EXCEPT !.clicked = reduceClick(st.clicked, boxId, action.multiple)]
    ELSE IF action.type = "MOVE_START"
    THEN [st EXCEPT !.moving = [boxId |-> action.boxId, dx |-> 0, dy |-> 0]]
    ELSE IF action.type = "MOVE"
    THEN IF st.moving = Undefined THEN st
         ELSE [st EXCEPT !.moving = Spread(st.moving, [dx |-> action.dx, dy |-> action.dy])]
    ELSE IF action.type = "MOVE_END"
    THEN [st EXCEPT !.moving = Undefined, !.clicked = <<>>]
    ELSE IF action.type = "UPDATE_RECTS"
    THEN [st EXCEPT !.rects = action.rects]
    ELSE IF action.type = "SET_COLLIDED"
    THEN [st EXCEPT !.collided = action.collided]
    ELSE st

reducer_R(st, action) ==
    IF action.type = "SET_CLICKED"
    THEN LET boxId == IF action.kind = "array" THEN action.boxId ELSE <<action.boxId>>
         IN  [st EXCEPT !.clicked = reduceClick(st.clicked, boxId, action.multiple)]
    ELSE IF action.type = "MOVE_START"
    THEN [st EXCEPT !.moving = [boxId |-> action.boxId, dx |-> 0, dy |-> 0]]
    ELSE IF action.type = "MOVE"
    THEN IF st.moving = Undefined THEN st
         ELSE [st EXCEPT !.moving = Spread(st.moving, [dx |-> action.dx, dy |-> action.dy])]
    ELSE IF action.type = "MOVE_END"
    THEN [st EXCEPT !.moving = Undefined]
    ELSE IF action.type = "UPDATE_RECTS"
    THEN [st EXCEPT !.rects = action.rects]
    ELSE IF action.type = "SET_COLLIDED"
    THEN [st EXCEPT !.collided = action.collided]
    ELSE st

next_R(w, action) == [w EXCEPT !.state = reducer_R(w.state, action)]

RECURSIVE dispatch_R(_, _)

\* the ids of rects that overlap the rect of another id, in Map order
collidedOf(rects) ==
    SelectSeq([k \in 1..Len(rects) |-> rects[k][1]],
              LAMBDA id1 : \E k \in 1..Len(rects) :
                              /\ rects[k][1] # id1
                              /\ checkCollision(MapGet(rects, id1), rects[k][2], 0, 0))

\* updateCollidedMiddleware answering a non-empty SET_COLLIDED with another dispatch
updateCollidedMiddleware_again(w, action) ==
    IF action.type = "UPDATE_RECTS"
    THEN LET w1 == next_R(w, action)
         IN  dispatch_R(w1, [type |-> "SET_COLLIDED", collided |-> collidedOf(w1.state.rects)])
    ELSE IF action.type = "SET_COLLIDED" /\ action.collided # <<>>
    THEN dispatch_R(next_R(w, action), [type |-> "SET_COLLIDED", collided |-> <<>>])
    ELSE next_R(w, action)

updateCollidedMiddleware(w, action) ==
    IF action.type = "UPDATE_RECTS"
    THEN LET w1 == next_R(w, action)
         IN  dispatch_R(w1, [type |-> "SET_COLLIDED", collided |-> collidedOf(w1.state.rects)])
    ELSE next_R(w, action)

updateRectsMiddleware(w, action) ==
    IF action.type = "MOVE_END"
    THEN LET rects == snapshotRects(registry, hasRef, domRect, <<>>)
             w1 == dispatch_R(w, [type |-> "UPDATE_RECTS", rects |-> rects])
         IN  updateCollidedMiddleware(w1, action)
    ELSE updateCollidedMiddleware(w, action)

\* the state is read before the action is forwarded, the callbacks run after
responderMiddleware_R(w, action) ==
    IF action.type = "MOVE"
    THEN LET moving == w.state.moving
             w1 == updateRectsMiddleware(w, action)
         IN  IF moving = Undefined THEN w1
             ELSE callEach(w1, "onMove", moving.boxId, moving)
    ELSE IF action.type = "MOVE_END"
    THEN LET moving == w.state.moving
             w1 == updateRectsMiddleware(w, action)
         IN  IF moving = Undefined THEN w1
             ELSE callEach(w1, "onMoveEnd", moving.boxId, moving)
    ELSE updateRectsMiddleware(w, action)

\* store.dispatch: applyMiddleware(responderMiddleware(..), updateRectsMiddleware(..),
\*                                 updateCollidedMiddleware())
dispatch_R(w, action) == return(responderMiddleware_R(enter(w, action), action), action)

\* the mousedown listeners in the other order: useBoxMove, then useBoxClick
MouseDown_R_moveFirst(target, p, shift) ==
    LET click == IF target = NoId THEN ClickAction("SET_CLICKED", "array", <<>>, FALSE)
                 ELSE ClickAction("SET_CLICKED", "string", target, shift)
        starts == ~isDragging /\ target # NoId
        start == [type |-> "MOVE_START", boxId |-> state.clicked]
        w1 == IF starts THEN dispatch_R(W(state), start) ELSE W(state)
        w2 == dispatch_R(w1, click)
    IN  Out(w2, isDragging \/ starts, IF starts THEN p ELSE dragStartOffset,
            stateRef, originMousePositionRef,
            (IF starts THEN <<start>> ELSE <<>>) \o <<click>>)

\* useBoxClick (mousedown), then useBoxMove (mousedown)
MouseDown_R(target, p, shift) ==
    LET click == IF target = NoId THEN ClickAction("SET_CLICKED", "array", <<>>, FALSE)
                 ELSE ClickAction("SET_CLICKED", "string", target, shift)
        w1 == dispatch_R(W(state), click)
        starts == ~isDragging /\ target # NoId
        start == [type |-> "MOVE_START", boxId |-> w1.state.clicked]
        w2 == IF starts THEN dispatch_R(w1, start) ELSE w1
    IN  Out(w2, isDragging \/ starts, IF starts THEN p ELSE dragStartOffset,
            stateRef, originMousePositionRef,
            <<click>> \o (IF starts THEN <<start>> ELSE <<>>))

\* useBoxMove (mousemove)
MouseMove_R(p) ==
    LET move == [type |-> "MOVE", dx |-> p.x - dragStartOffset.x,
                                  dy |-> p.y - dragStartOffset.y]
    IN  IF ~isDragging
        THEN Out(W(state), isDragging, dragStartOffset, stateRef, originMousePositionRef, <<>>)
        ELSE Out(dispatch_R(W(state), move), isDragging, dragStartOffset,
                 stateRef, originMousePositionRef, <<move>>)

\* useBoxMove (mouseup) without the check of mouseStateRef
MouseUp_R_unguarded(p) ==
    Out(dispatch_R(W(state), [type |-> "MOVE_END"]), FALSE, dragStartOffset,
        stateRef, originMousePositionRef, <<[type |-> "MOVE_END"]>>)

\* useBoxMove (mouseup)
MouseUp_R(p) ==
    IF ~isDragging
    THEN Out(W(state), isDragging, dragStartOffset, stateRef, originMousePositionRef, <<>>)
    ELSE Out(dispatch_R(W(state), [type |-> "MOVE_END"]), FALSE, dragStartOffset,
             stateRef, originMousePositionRef, <<[type |-> "MOVE_END"]>>)

\* mapState of part_000 handing the drag offset to every box
mapState_R_all(st, boxId) ==
    [clicked |-> Has(st.clicked, boxId),
     collided |-> Has(st.collided, boxId),
     offset |-> [x |-> IF st.moving # Undefined THEN st.moving.dx ELSE 0,
                 y |-> IF st.moving # Undefined THEN st.moving.dy ELSE 0]]

\* Box = connect(mapState): what the render callback of box boxId receives
mapState_R(st, boxId) ==
    LET dragged == st.moving # Undefined /\ Has(st.moving.boxId, boxId)
    IN  [clicked |-> Has(st.clicked, boxId),
         collided |-> Has(st.collided, boxId),
         offset |-> [x |-> IF dragged THEN st.moving.dx ELSE 0,
                     y |-> IF dragged THEN st.moving.dy ELSE 0]]

-----------------------------------------------------------------------------
(* The pointer events *)

\* The store of each variant right after createStore
InitialState(v) ==
    IF v = "S" THEN [clicked |-> NoId, moving |-> Undefined]
    ELSE IF v = "M" THEN [clicked |-> <<>>, moving |-> Undefined, rects |-> <<>>]
    ELSE [clicked |-> <<>>, moving |-> Undefined, rects |-> <<>>, collided |-> <<>>]

ZeroPoint == [x |-> 0, y |-> 0]

\* `${n}px`
px(n) == <<n, "px">>

\* ClickedGizmo: useState({left: `0px`, top: `0px`, width: `0px`, height: `0px`})
InitialStyle == [left |-> px(0), top |-> px(0), width |-> px(0), height |-> px(0)]

\* {clicked && <ClickedGizmo getRef={getRef}/>}: when the clicked box changes,
\* the gizmo of the old one is unmounted and the new one starts from useState
gizmoAfter(st, before, after) ==
    IF variant = "S" /\ after.clicked # before.clicked THEN InitialStyle ELSE st

\* no call of the overlap test has been made
NoOverlapCall == [fn |-> "none", rect1 |-> Rect(0, 0, 0, 0), rect2 |-> Rect(0, 0, 0, 0),
                  offsetX |-> 0, offsetY |-> 0, result |-> <<>>]

\* the component tree right after the first commit
Mounted ==
    /\ variant \in Variants
    /\ state = InitialState(variant)
    /\ isDragging = FALSE
    /\ dragStartOffset = ZeroPoint
    /\ stateRef = "IDLE"
    /\ originMousePositionRef = ZeroPoint
    /\ registry = <<[id |-> "0", getRef |-> 1], [id |-> "1", getRef |-> 2]>>
    /\ hasRef = Ids
    /\ domRect \in Layouts
    /\ lastEvent = [type |-> "none", target |-> NoId, p |-> ZeroPoint]
    /\ dispatched = <<>>
    /\ dispatchLog = <<>>
    /\ calls = <<>>
    /\ err = "none"
    /\ gestureOpen = FALSE
    /\ raw = 0
    /\ style = InitialStyle

Init == Mounted /\ overlapCall = NoOverlapCall

\* whether a drag gesture is open after the listeners dispatched acts, in order
RECURSIVE gestureAfter(_, _)
gestureAfter(open, acts) ==
    IF acts = <<>> THEN open
    ELSE gestureAfter(IF Head(acts).type = "MOVE_START" THEN TRUE
                      ELSE IF Head(acts).type = "MOVE_END" THEN FALSE
                      ELSE open,
                      Tail(acts))

\* the listeners have run: their effects become the next state
Handled(out) ==
    /\ state' = out.w.state
    /\ calls' = out.w.calls
    /\ err' = out.w.err
    /\ isDragging' = out.isDragging
    /\ dragStartOffset' = out.dragStartOffset
    /\ stateRef' = out.stateRef
    /\ originMousePositionRef' = out.originMousePositionRef
    /\ dispatched' = out.dispatched
    /\ dispatchLog' = out.w.log
    /\ gestureOpen' = gestureAfter(gestureOpen, out.dispatched)
    /\ style' = gizmoAfter(style, state, out.w.state)
    /\ UNCHANGED <<variant, registry, hasRef, domRect, raw, overlapCall>>

\* lastEvent keeps the position of the event only when a listener read
\* e.clientX / e.clientY (a drag or a marquee started, moved or was released)
Event(type, target, p, read) ==
    [type |-> type, target |-> target, p |-> IF read THEN p ELSE ZeroPoint]

\* e.target.closest('[box-id]'): the box whose element lies under the pointer
\* (any of them where boxes overlap), NoId over empty space
Targets(p) ==
    LET under == {id \in {registry[k].id : k \in 1..Len(registry)} :
                    /\ domRect[id].x < p.x /\ p.x < domRect[id].x + domRect[id].width
                    /\ domRect[id].y < p.y /\ p.y < domRect[id].y + domRect[id].height}
    IN  IF under = {} THEN {NoId} ELSE under

MouseDown ==
    \E p \in Points, shift \in BOOLEAN : \E target \in Targets(p) :
        /\ lastEvent' = Event("mousedown", target, p,
                              \/ ~isDragging /\ target # NoId
                              \/ variant = "M" /\ stateRef = "IDLE" /\ target = NoId)
        /\ Handled(IF variant = "S" THEN MouseDown_S(target, p)
                   ELSE IF variant = "M" THEN MouseDown_M(target, p, shift)
                   ELSE MouseDown_R(target, p, shift))

MouseMove ==
    \E p \in Points :
        /\ lastEvent' = Event("mousemove", NoId, p, isDragging \/ stateRef = "MOVE")
        /\ Handled(IF variant = "S" THEN MouseMove_S(p)
                   ELSE IF variant = "M" THEN MouseMove_M(p)
                   ELSE MouseMove_R(p))

MouseUp ==
    \E p \in Points :
        /\ lastEvent' = Event("mouseup", NoId, p, stateRef = "MOVE")
        /\ Handled(IF variant = "S" THEN MouseUp_S(p)
                   ELSE IF variant = "M" THEN MouseUp_M(p)
                   ELSE MouseUp_R(p))

Next == MouseDown \/ MouseMove \/ MouseUp

Spec == Init /\ [][Next]_vars

\* one variant at a time
InitS == Init /\ variant = "S"
InitM == Init /\ variant = "M"
InitR == Init /\ variant = "R"

SpecS == InitS /\ [][Next]_vars
SpecM == InitM /\ [][Next]_vars
SpecR == InitR /\ [][Next]_vars

-----------------------------------------------------------------------------
(* store.dispatch called directly, not by a pointer listener.  The claims  *)
(* about such a dispatch are about that step: pointer events lead to the   *)
(* state it starts from, and at most MaxRaw direct dispatches follow.      *)

\* the actions of ReduxAction a caller can hand to store.dispatch of variant v
RawActions(v) ==
    {[type |-> "MOVE_END"]}
        \cup {[type |-> "MOVE", dx |-> p.x, dy |-> p.y] : p \in Points}
        \cup (IF v = "S"
              THEN {[type |-> "SET_COLLISION_STATE", collision |-> b] : b \in BOOLEAN}
              ELSE IF v = "R"
              THEN {[type |-> "SET_COLLIDED", collided |-> c] :
                        c \in {<<>>, <<"0">>, <<"0", "1">>}}
              ELSE {})

storeDispatch(w, action) ==
    IF variant = "S" THEN dispatch_S(w, action)
    ELSE IF variant = "M" THEN dispatch_M(w, action)
    ELSE dispatch_R(w, action)

\* store.dispatch(action), called by the owner of the store
Dispatching(action) ==
    /\ raw' = raw + 1
    /\ lastEvent' = Event("dispatch", NoId, ZeroPoint, FALSE)
    /\ LET w == storeDispatch(W(state), action)
       IN  /\ state' = w.state
           /\ calls' = w.calls
           /\ err' = w.err
           /\ style' = gizmoAfter(style, state, w.state)
           /\ dispatchLog' = w.log
    /\ dispatched' = <<action>>
    /\ UNCHANGED <<variant, isDragging, dragStartOffset, stateRef,
                   originMousePositionRef, registry, hasRef, domRect, gestureOpen,
                   overlapCall>>

Dispatch ==
    \E action \in RawActions(variant) :
        /\ raw < MaxRaw
        /\ Dispatching(action)

PointerEvent == raw = 0 /\ Next

NextD == PointerEvent \/ Dispatch

SpecD == Init /\ [][NextD]_vars

-----------------------------------------------------------------------------
(* Sequences of Select actions (CLICK / SET_CLICKED) dispatched to a fresh  *)
(* store of a multi-select variant: the reducer's selection function.      *)

\* the arrays of ids a Select can carry, repeated ids included
SelectIds == UNION {[1..n -> Ids] : n \in 0..MaxIdsLen}

\* boxId: string | string[] | undefined ("M"), string | string[] ("R")
SelectKinds(v) == IF v = "M" THEN {"array", "string", "undefined"} ELSE {"array", "string"}

SelectBoxIds(kind) ==
    IF kind = "array" THEN SelectIds ELSE IF kind = "string" THEN Ids ELSE {NoId}

Select ==
    \E kind \in SelectKinds(variant), multiple \in BOOLEAN :
        \E boxId \in SelectBoxIds(kind) :
            /\ raw < MaxSelects
            /\ Dispatching(ClickAction(IF variant = "M" THEN "CLICK" ELSE "SET_CLICKED",
                                       kind, boxId, multiple))

InitSelect == Init /\ variant \in {"M", "R"}

SpecSelect == InitSelect /\ [][Select]_vars

-----------------------------------------------------------------------------
(* The interaction state as the claims name it *)

\* the selected set
Selected ==
    IF variant = "S"
    THEN IF state.clicked = NoId THEN {} ELSE {state.clicked}
    ELSE Elems(state.clicked)

\* drag is present
Dragging == state.moving # Undefined

\* the ids of the active drag
DragIdsOf(moving) ==
    IF moving = Undefined \/ "boxId" \notin DOMAIN moving THEN {}
    ELSE IF variant = "S" THEN {moving.boxId}
    ELSE Elems(moving.boxId)

DragIds == DragIdsOf(state.moving)

\* the listeners dispatched an action of this type while handling the last event
Dispatched(type) == \E k \in 1..Len(dispatched) : dispatched[k].type = type

\* a and b intersect in a region of non-zero area
PositiveOverlap(a, b) ==
    LET left == IF a.x > b.x THEN a.x ELSE b.x
        right == IF a.x + a.width < b.x + b.width THEN a.x + a.width ELSE b.x + b.width
        top == IF a.y > b.y THEN a.y ELSE b.y
        bottom == IF a.y + a.height < b.y + b.height THEN a.y + a.height ELSE b.y + b.height
    IN  left < right /\ top < bottom

Translate(r, dx, dy) == [r EXCEPT !.x = @ + dx, !.y = @ + dy]

\* "S": the dragged box, moved by the drag offset, overlaps another snapshotted box
CollidesAt(moving) ==
    /\ MapHas(moving.rects, moving.boxId)
    /\ \E id \in MapKeys(moving.rects) \ {moving.boxId} :
          PositiveOverlap(Translate(MapGet(moving.rects, moving.boxId), moving.dx, moving.dy),
                          MapGet(moving.rects, id))

\* how often callback fn was invoked for id
CallCount(cs, fn, id) == Cardinality({k \in 1..Len(cs) : cs[k].fn = fn /\ cs[k].id = id})

\* rectangle outer contains rectangle inner
RectContains(outer, inner) ==
    /\ outer.x <= inner.x
    /\ outer.y <= inner.y
    /\ inner.x + inner.width <= outer.x + outer.width
    /\ inner.y + inner.height <= outer.y + outer.height

\* "M": the marquee listener ran for the last event (a move or the release)
MarqueeMoved ==
    /\ variant = "M"
    /\ lastEvent.type \in {"mousemove", "mouseup"}
    /\ Dispatched("CLICK")

\* "M": the snapshotted boxes the marquee rectangle of the last event overlaps
MarqueeOverlapped ==
    {id \in MapKeys(state.rects) :
        checkCollision(marqueeRect(originMousePositionRef, lastEvent.p),
                       MapGet(state.rects, id), 0, 0)}

-----------------------------------------------------------------------------
(* Claims *)

\* C1: in every reachable state of every variant, every id of the active drag
\* is in the selected set.
C1_DragIdsSelected == DragIds \subseteq Selected

\* C2: in the marquee variant, after every move and after the release of a
\* marquee gesture, selected is exactly the set of snapshotted boxes that the
\* marquee rectangle (press point to current pointer position) overlaps.
C2_MarqueeSelectsOverlapped == MarqueeMoved => Selected = MarqueeOverlapped

\* C3: in the marquee variant, when a move (or the release) of a marquee
\* gesture follows a move of the same gesture and its marquee rectangle
\* contains the previous one, every id selected after the previous move is
\* still selected; along a gesture of nested rectangles no id is ever removed.
C3_MarqueeMonotone ==
    [][ ( /\ variant = "M"
          /\ stateRef = "MOVE"
          /\ lastEvent.type = "mousemove"
          /\ lastEvent'.type \in {"mousemove", "mouseup"}
          /\ RectContains(marqueeRect(originMousePositionRef, lastEvent'.p),
                          marqueeRect(originMousePositionRef, lastEvent.p)) )
        => Elems(state.clicked) \subseteq Elems(state'.clicked) ]_vars

\* C3 witness: a marquee was dragged out from its origin and holds both boxes.
C3_Witness ==
    /\ MarqueeMoved
    /\ stateRef = "MOVE"
    /\ lastEvent.p # originMousePositionRef
    /\ Selected = Ids

\* C4: in the single-select collision variant, whenever a drag is present (a
\* MoveStart or Move has been handled), the stored collision flag is true
\* exactly when the dragged box's snapshotted rect, moved by (dx, dy), overlaps
\* the snapshotted rect of another box.
C4_CollisionFlag ==
    (variant = "S" /\ Dragging) => (state.moving.collision <=> CollidesAt(state.moving))

\* C4 witness: a Move was handled and the dragged box collides.
C4_Witness ==
    /\ variant = "S"
    /\ Dispatched("MOVE")
    /\ Dragging
    /\ state.moving.collision
    /\ state.moving.dx # 0

\* C5: in the single-select collision variant, at the moment onMove is
\* invoked the stored collision flag already reflects the Move's (dx, dy).
C5_OnMoveAfterCollisionUpdate ==
    \A k \in 1..Len(calls) :
        (variant = "S" /\ calls[k].fn = "onMove")
            => (calls[k].store.moving.collision <=> CollidesAt(calls[k].store.moving))

\* C6: every onMove callback triggered by a Move(dx, dy) of the drag
\* interpreter receives exactly that action's dx and dy.
C6_OnMoveReceivesActionOffset ==
    \A k \in 1..Len(calls) :
        calls[k].fn = "onMove"
            => \E j \in 1..Len(dispatched) :
                  /\ dispatched[j].type = "MOVE"
                  /\ dispatched[j].dx = calls[k].dx
                  /\ dispatched[j].dy = calls[k].dy

\* C7: in the multi-select variants, for each Move and each MoveEnd dispatched
\* during a drag, onMove (onMoveEnd) is invoked exactly once for every id in
\* drag.ids and for no other id.
C7_OncePerDraggedId ==
    [][ (variant # "S")
        => ( /\ Dispatched("MOVE")' =>
                  \A id \in Ids :
                      CallCount(calls', "onMove", id) = (IF id \in DragIds THEN 1 ELSE 0)
             /\ Dispatched("MOVE_END")' =>
                  \A id \in Ids :
                      CallCount(calls', "onMoveEnd", id) = (IF id \in DragIds THEN 1 ELSE 0) )
      ]_vars

\* C7 witness: a Move of a drag of both boxes was handled.
C7_Witness ==
    /\ variant \in {"M", "R"}
    /\ Dispatched("MOVE")
    /\ DragIds = Ids
    /\ Len(calls) = 2

\* C8: on a MoveEnd of a drag the onMoveEnd callbacks run while drag is still
\* present in the store, receive the stored offset of the drag, and drag is
\* absent once the dispatch has returned.
C8_OnMoveEndBeforeClear ==
    \A k \in 1..Len(calls) :
        calls[k].fn = "onMoveEnd"
            => /\ calls[k].store.moving # Undefined
               /\ calls[k].dx = calls[k].store.moving.dx
               /\ calls[k].dy = calls[k].store.moving.dy
               /\ state.moving = Undefined

C10_MoveEndWithoutDragIsNoop ==
    [][ ( /\ lastEvent'.type = "dispatch"
          /\ dispatched'[1].type = "MOVE_END"
          /\ state.moving = Undefined )
        => (state' = state /\ calls' = <<>>) ]_vars

\* the boxes whose render callback is told that they collide
FlaggedColliding ==
    IF variant = "S" THEN {id \in Ids : mapState_S(state, id).collided}
    ELSE IF variant = "R" THEN {id \in Ids : mapState_R(state, id).collided}
    ELSE {}

\* the last step was store.dispatch of one action of one of these types
RawDispatched(types) ==
    /\ lastEvent.type = "dispatch"
    /\ dispatched[1].type \in types

-----------------------------------------------------------------------------
(* The registry (createRegistry / createBoxRegistry), called by its owner. *)
(* An entry is an object: id, and getRef, which stands for the identity of *)
(* the Box instance that made it.                                          *)

Entries == [id : Ids, getRef : 1..MaxBoxes]

RegistryEvent(type, entry) ==
    [type |-> type, target |-> entry.id, p |-> ZeroPoint, entry |-> entry]

\* registry.indexOf(box): 0 stands for -1
indexOf(reg, box) ==
    IF \E k \in 1..Len(reg) : reg[k] = box
    THEN CHOOSE k \in 1..Len(reg) : reg[k] = box /\ \A j \in 1..(k - 1) : reg[j] # box
    ELSE 0

\* registry.splice(idx, 1) with idx = indexOf(..): -1 counts from the end
splice1(reg, idx) ==
    LET at == IF idx = 0 THEN Len(reg) ELSE idx
    IN  [k \in 1..(Len(reg) - (IF reg = <<>> THEN 0 ELSE 1)) |->
            IF k < at THEN reg[k] ELSE reg[k + 1]]

\* register, were it to put the new entry first
register_front(reg, box) == <<box>> \o reg

register(reg, box) == Append(reg, box)

unregister(reg, box) == splice1(reg, indexOf(reg, box))

RegistryStep(type, entry, reg) ==
    /\ registry' = reg
    /\ lastEvent' = RegistryEvent(type, entry)
    /\ dispatched' = <<>>
    /\ dispatchLog' = <<>>
    /\ calls' = <<>>
    /\ err' = "none"
    /\ UNCHANGED <<variant, state, isDragging, dragStartOffset, stateRef,
                   originMousePositionRef, hasRef, domRect, gestureOpen, raw,
                   style, overlapCall>>

Register ==
    \E entry \in Entries :
        /\ Len(registry) < MaxEntries
        /\ RegistryStep("register", entry, register(registry, entry))

Unregister ==
    \E entry \in Entries :
        RegistryStep("unregister", entry, unregister(registry, entry))

NextRegistry == Register \/ Unregister

SpecRegistry == Init /\ [][NextRegistry]_vars

\* getAll(): the array itself
getAll(reg) == reg

\* the ids of the registered entries
RegisteredIds(reg) == {reg[k].id : k \in 1..Len(reg)}

-----------------------------------------------------------------------------

\* C11: in every variant, dispatching Move(dx, dy) while drag is absent is a
\* no-op: no field of the state changes (drag stays absent), no callback is
\* invoked and no error is raised.
C11_MoveWithoutDragIsNoop ==
    [][ (RawDispatched({"MOVE"})' /\ state.moving = Undefined)
        => (state' = state /\ calls' = <<>> /\ err' = "none") ]_vars

\* C12: in every variant that stores a collision result, a SetCollisions
\* action applied while drag is absent leaves the state unchanged.
C12_SetCollisionsWithoutDragIsNoop ==
    [][ ( /\ RawDispatched({"SET_COLLISION_STATE", "SET_COLLIDED"})'
          /\ state.moving = Undefined )
        => state' = state ]_vars

\* C13: in every variant that stores a collision result, no box is flagged
\* as colliding and the stored set of colliding ids is empty in every
\* reachable state in which drag is absent.
C13_NoCollisionWithoutDrag ==
    ~Dragging => /\ FlaggedColliding = {}
                 /\ variant = "R" => state.collided = <<>>

\* C14: in every reachable state with drag present, every box flagged as
\* colliding is one of the dragged boxes.
C14_CollidingAreDragged == Dragging => FlaggedColliding \subseteq DragIds

\* the drag actions among the actions dispatched by the listeners form a
\* well-formed continuation of the gestures so far
RECURSIVE WellFormedGestures(_, _)
WellFormedGestures(open, acts) ==
    IF acts = <<>> THEN TRUE
    ELSE LET t == Head(acts).type
         IN  /\ t = "MOVE_START" => ~open
             /\ t \in {"MOVE", "MOVE_END"} => open
             /\ WellFormedGestures(IF t = "MOVE_START" THEN TRUE
                                    ELSE IF t = "MOVE_END" THEN FALSE
                                    ELSE open,
                                    Tail(acts))

\* C15: for any sequence of pointer events the drag actions the listeners
\* dispatch form gestures MoveStart, Move*, MoveEnd: a Move or MoveEnd is
\* dispatched only while a MoveStart is unfinished, and a MoveStart only
\* while none is.
C15_GestureOrder ==
    [][ lastEvent'.type # "dispatch" => WellFormedGestures(gestureOpen, dispatched') ]_vars

\* C15 witness: a gesture with a Move away from the origin was completed.
C15_Witness ==
    /\ lastEvent.type = "mouseup"
    /\ Dispatched("MOVE_END")
    /\ ~gestureOpen
    /\ \E k \in 1..Len(calls) : calls[k].fn = "onMoveEnd" /\ calls[k].dx # 0

\* the rect snapshot the store holds: inside the drag in "S", state.rects otherwise
RectSnapshot(st) ==
    IF variant = "S"
    THEN IF st.moving # Undefined /\ "rects" \in DOMAIN st.moving THEN st.moving.rects ELSE <<>>
    ELSE st.rects

\* C16: a press received while the drag interpreter is Dragging starts no new
\* drag: no MoveStart is dispatched, and the drag origin, drag.ids, the drag
\* offset and the rect snapshot are unchanged by that press.
C16_PressWhileDraggingIgnored ==
    [][ (lastEvent'.type = "mousedown" /\ isDragging)
        => /\ ~Dispatched("MOVE_START")'
           /\ isDragging'
           /\ dragStartOffset' = dragStartOffset
           /\ Dragging /\ Dragging'
           /\ DragIdsOf(state'.moving) = DragIds
           /\ state'.moving.dx = state.moving.dx
           /\ state'.moving.dy = state.moving.dy
           /\ RectSnapshot(state') = RectSnapshot(state) ]_vars

\* the ids and the additive flag of a Select action
SelectIdsOf(action) ==
    IF action.kind = "undefined" THEN <<>>
    ELSE IF action.kind = "string" THEN <<action.boxId>>
    ELSE action.boxId

\* Select as C17 states it: start from selected if additive or ids is
\* non-empty and contained in selected, else from the empty list; append, in
\* order, each id of ids that is not yet present
SelectResult(selected, ids, additive) ==
    LET contained == ids # <<>> /\ \A k \in 1..Len(ids) : ids[k] \in Elems(selected)
        base == IF additive \/ contained THEN selected ELSE <<>>
        new == SelectSeq([k \in 1..Len(ids) |-> k],
                         LAMBDA k : /\ ids[k] \notin Elems(base)
                                    /\ \A j \in 1..(k - 1) : ids[j] # ids[k])
    IN  base \o [k \in 1..Len(new) |-> ids[new[k]]]

SameSelect(a, b) ==
    /\ a.type = b.type
    /\ a.kind = b.kind
    /\ a.multiple = b.multiple
    /\ a.boxId = b.boxId

\* C17: for every selected list and every Select(ids, additive) the new
\* selected list is the one C17 describes (SelectResult).
C17_SelectResult ==
    [][ RawDispatched({"CLICK", "SET_CLICKED"})'
        => state'.clicked = SelectResult(state.clicked, SelectIdsOf(dispatched'[1]),
                                         dispatched'[1].multiple) ]_vars

\* C17 witness: an additive Select appended a second id after the first.
C17_Witness ==
    /\ RawDispatched({"CLICK", "SET_CLICKED"})
    /\ dispatched[1].multiple
    /\ dispatched[1].kind = "array"
    /\ state.clicked = <<"1", "0">>

C19_EmptyPressKeepsSelection ==
    [][ (lastEvent'.type = "mousedown" /\ lastEvent'.target = NoId)
        => Selected' = Selected ]_vars

\* C20: register(entry) with an id that is already registered leaves the
\* registry unchanged (and so the registry never holds two entries of one id).
C20_DuplicateRegisterRejected ==
    [][ (lastEvent'.type = "register" /\ lastEvent'.target \in RegisteredIds(registry))
        => registry' = registry ]_vars

\* C21: unregister of an entry that is not registered is a no-op: the registry
\* is unchanged, no other entry is removed (and so a second unregister of the
\* same entry changes nothing after the first).
C21_UnregisterAbsentIsNoop ==
    [][ ( /\ lastEvent'.type = "unregister"
          /\ ~Has(registry, lastEvent'.entry) )
        => registry' = registry ]_vars

\* reg without its k-th element, the others in their order
Without(reg, k) == SubSeq(reg, 1, k - 1) \o SubSeq(reg, k + 1, Len(reg))

\* C22: getAll returns the entries registered and not yet unregistered, in the
\* order of their registration.  Step by step: register puts the new entry
\* after all the others, which keep their order; unregister of a registered
\* entry removes one occurrence of it (the earliest) and keeps the others in
\* their order.
C22_GetAllInRegistrationOrder ==
    [][ /\ lastEvent'.type = "register"
           => getAll(registry') = getAll(registry) \o <<lastEvent'.entry>>
        /\ (lastEvent'.type = "unregister" /\ Has(registry, lastEvent'.entry))
           => \E k \in 1..Len(registry) :
                 /\ registry[k] = lastEvent'.entry
                 /\ \A j \in 1..(k - 1) : registry[j] # lastEvent'.entry
                 /\ getAll(registry') = Without(getAll(registry), k) ]_vars

\* C22 witness: an entry registered twice was unregistered once, and the
\* registry still holds it after a different entry.
C22_Witness ==
    /\ lastEvent.type = "unregister"
    /\ Len(registry) = 2
    /\ registry[2] = lastEvent.entry
    /\ registry[1] # lastEvent.entry

-----------------------------------------------------------------------------
(* Boxes mounting and unmounting while the pointer is in use.  A Box makes  *)
(* one entry, registers it in its layout effect and unregisters it in the  *)
(* effect's cleanup; its ref is set while its element is mounted.          *)

\* useBoxPublisher: the entry of the Box with this id
entryOf(id) == [id |-> id, getRef |-> IF id = "0" THEN 1 ELSE 2]

BoxStep(type, id, reg, refs) ==
    /\ registry' = reg
    /\ hasRef' = refs
    /\ lastEvent' = RegistryEvent(type, entryOf(id))
    /\ dispatched' = <<>>
    /\ dispatchLog' = <<>>
    /\ calls' = <<>>
    /\ err' = "none"
    /\ UNCHANGED <<variant, state, isDragging, dragStartOffset, stateRef,
                   originMousePositionRef, domRect, gestureOpen, raw,
                   style, overlapCall>>

\* the Box is mounted: setRef(el), then the layout effect registers the entry
BoxMount ==
    \E id \in Ids :
        /\ ~Has(registry, entryOf(id))
        /\ BoxStep("register", id, register(registry, entryOf(id)), hasRef \cup {id})

\* the Box is unmounted: the effect's cleanup unregisters the entry, setRef(null)
BoxUnmount ==
    \E id \in Ids :
        /\ Has(registry, entryOf(id))
        /\ BoxStep("unregister", id, unregister(registry, entryOf(id)), hasRef \ {id})

NextB == Next \/ BoxMount \/ BoxUnmount

SpecSB == InitS /\ [][NextB]_vars
InitMB == InitM /\ domRect = SideBySide
SpecMB == InitMB /\ [][NextB]_vars

\* C23: in the single-select collision variant the rect snapshot of a drag is
\* the one measured at the press that started it, and from MoveStart to MoveEnd
\* no step changes it: not a move, a collision update, a press during the drag,
\* or a box being registered or unregistered.
C23_SnapshotFixedDuringDrag ==
    [][ /\ Dispatched("MOVE_START")'
           => /\ Dragging'
              /\ RectSnapshot(state') = snapshotRects(registry, hasRef, domRect, <<>>)
        /\ (Dragging /\ ~Dispatched("MOVE_END")')
           => /\ Dragging'
              /\ RectSnapshot(state') = RectSnapshot(state) ]_vars

\* C23 witness: during a drag a box was unregistered and then a move was
\* handled, and the snapshot still holds the rects of both boxes.
C23_Witness ==
    /\ variant = "S"
    /\ Dragging
    /\ lastEvent.type = "mousemove"
    /\ Dispatched("MOVE")
    /\ Len(registry) < 2
    /\ Len(RectSnapshot(state)) = 2

-----------------------------------------------------------------------------
(* The overlap test on its own: collisionCheck (part_002) and              *)
(* checkCollision (part_003) called with rectangles of non-negative width  *)
(* and height and integer offsets.                                         *)

Rects == [x : 0..MaxPos, y : 0..MaxPos, width : 0..MaxSize, height : 0..MaxSize]
Offsets == (0 - MaxOffset)..MaxOffset

InitOverlap ==
    /\ Mounted
    /\ variant = "S"
    /\ domRect = SideBySide
    /\ overlapCall \in [fn : {"none"}, rect1 : Rects, rect2 : Rects,
                        offsetX : Offsets, offsetY : Offsets, result : {<<>>}]

OverlapReturns(fn, result) ==
    /\ overlapCall.fn = "none"
    /\ overlapCall' = [overlapCall EXCEPT !.fn = fn, !.result = <<result>>]
    /\ UNCHANGED <<variant, state, isDragging, dragStartOffset, stateRef,
                   originMousePositionRef, registry, hasRef, domRect, lastEvent,
                   dispatched, dispatchLog, calls, err, gestureOpen, raw, style>>

CallCollisionCheck ==
    OverlapReturns("collisionCheck",
                   collisionCheck(overlapCall.rect1, overlapCall.rect2,
                                  overlapCall.offsetX, overlapCall.offsetY))

CallCheckCollision ==
    OverlapReturns("checkCollision",
                   checkCollision(overlapCall.rect1, overlapCall.rect2,
                                  overlapCall.offsetX, overlapCall.offsetY))

NextOverlap == CallCollisionCheck \/ CallCheckCollision

SpecOverlap == InitOverlap /\ [][NextOverlap]_vars

\* the arguments of the call: rect1 moved by the offset, and rect2
OverlapMoved == Translate(overlapCall.rect1, overlapCall.offsetX, overlapCall.offsetY)

PositiveSize(r) == r.width > 0 /\ r.height > 0

\* a and b share at most a stretch of an edge line: one ends where the other begins
TouchOnly(a, b) ==
    \/ a.x + a.width = b.x
    \/ b.x + b.width = a.x
    \/ a.y + a.height = b.y
    \/ b.y + b.height = a.y

\* C24 as stated: for all rectangles of non-negative width and height, those
\* of zero width or height included, and all offsets, the overlap test returns
\* true exactly when rect1 moved by the offset and rect2 intersect in a region
\* of non-zero area.
C24_OverlapIffPositiveArea_Stated ==
    overlapCall.result # <<>>
        => overlapCall.result[1] = PositiveOverlap(OverlapMoved, overlapCall.rect2)

\* C24: the overlap test returns true whenever the moved rect1 and rect2
\* intersect in a region of non-zero area; when both have positive width and
\* height it returns true only then; rectangles of positive width and height
\* that only touch along an edge do not overlap.
C24_OverlapIffPositiveArea ==
    overlapCall.result # <<>>
        => /\ PositiveOverlap(OverlapMoved, overlapCall.rect2) => overlapCall.result[1]
           /\ (PositiveSize(overlapCall.rect1) /\ PositiveSize(overlapCall.rect2))
                 => /\ overlapCall.result[1] = PositiveOverlap(OverlapMoved, overlapCall.rect2)
                    /\ TouchOnly(OverlapMoved, overlapCall.rect2) => ~overlapCall.result[1]

\* C24 witness: two rectangles of positive size that touch along an edge
\* after the move were tested, and the test returned false.
C24_Witness ==
    /\ overlapCall.fn = "checkCollision"
    /\ PositiveSize(overlapCall.rect1) /\ PositiveSize(overlapCall.rect2)
    /\ overlapCall.offsetX # 0
    /\ OverlapMoved.x + OverlapMoved.width = overlapCall.rect2.x
    /\ OverlapMoved.y = overlapCall.rect2.y
    /\ overlapCall.result = <<FALSE>>

-----------------------------------------------------------------------------
(* The indicator of the clicked box ("S"): ClickedGizmo polls the box's     *)
(* element on every animation frame.  Between frames the render callback   *)
(* may attach or detach the element (innerRef) and the caller may lay the  *)
(* boxes out anew.                                                         *)

\* the style ClickedGizmo.update sets from el.getBoundingClientRect()
styleOf(rect) ==
    [left |-> px(rect.x), top |-> px(rect.y),
     width |-> px(rect.width), height |-> px(rect.height)]

\* ClickedGizmo.update with an absent element resetting the style
update_reset(st, id) ==
    IF id \notin hasRef THEN InitialStyle ELSE styleOf(domRect[id])

\* ClickedGizmo.update: const el = getRef(); if (!el) return; setStyle({..})
update(st, id) ==
    IF id \notin hasRef THEN st ELSE styleOf(domRect[id])

\* useRAF: one run of raf() of the mounted gizmo
Frame ==
    /\ variant = "S"
    /\ state.clicked # NoId
    /\ style' = update(style, state.clicked)
    /\ lastEvent' = Event("frame", state.clicked, ZeroPoint, FALSE)
    /\ dispatched' = <<>>
    /\ dispatchLog' = <<>>
    /\ calls' = <<>>
    /\ err' = "none"
    /\ UNCHANGED <<variant, state, isDragging, dragStartOffset, stateRef,
                   originMousePositionRef, registry, hasRef, domRect, gestureOpen,
                   raw, overlapCall>>

\* _Box.setRef(el) / setRef(null), called by React for the element that the
\* render callback gave innerRef to
SetRef ==
    \E id \in Ids, attached \in BOOLEAN :
        /\ hasRef' = IF attached THEN hasRef \cup {id} ELSE hasRef \ {id}
        /\ hasRef' # hasRef
        /\ lastEvent' = Event("setRef", id, ZeroPoint, FALSE)
        /\ dispatched' = <<>>
        /\ dispatchLog' = <<>>
        /\ calls' = <<>>
        /\ err' = "none"
        /\ UNCHANGED <<variant, state, isDragging, dragStartOffset, stateRef,
                       originMousePositionRef, registry, domRect, gestureOpen,
                       raw, style, overlapCall>>

\* the caller renders the boxes at other positions
Relayout ==
    \E layout \in Layouts \ {domRect} :
        /\ domRect' = layout
        /\ lastEvent' = Event("layout", NoId, ZeroPoint, FALSE)
        /\ dispatched' = <<>>
        /\ dispatchLog' = <<>>
        /\ calls' = <<>>
        /\ err' = "none"
        /\ UNCHANGED <<variant, state, isDragging, dragStartOffset, stateRef,
                       originMousePositionRef, registry, hasRef, gestureOpen,
                       raw, style, overlapCall>>

NextGizmo == Next \/ Frame \/ SetRef \/ Relayout

SpecGizmo == InitS /\ [][NextGizmo]_vars

\* the rectangle a style publishes: its four lengths, read back from `<n>px`
Published(st) ==
    IF \A f \in DOMAIN st : st[f][2] = "px"
    THEN Rect(st.left[1], st.top[1], st.width[1], st.height[1])
    ELSE Undefined

\* C25: on every frame tick of the indicator's poller, if the box's element is
\* there the published rectangle becomes its bounding rect; if it is absent
\* the published rectangle keeps its previous value; no error is raised.
C25_PollerHoldsLastRect ==
    [][ lastEvent'.type = "frame"
        => /\ err' = "none"
           /\ (lastEvent'.target \in hasRef)
                 => Published(style') = domRect[lastEvent'.target]
           /\ (lastEvent'.target \notin hasRef)
                 => style' = style ]_vars

\* C25 witness: a frame found the element absent and the indicator still shows
\* a rectangle published earlier, which is not where the box is laid out now.
C25_Witness ==
    /\ lastEvent.type = "frame"
    /\ lastEvent.target \notin hasRef
    /\ style # InitialStyle
    /\ Published(style) # domRect[lastEvent.target]

-----------------------------------------------------------------------------
(* MOVE_START handed to store.dispatch of a multi-select variant directly, *)
(* with any list of ids, after pointer events.                             *)

DispatchMoveStart ==
    \E boxId \in SelectIds :
        /\ variant \in {"M", "R"}
        /\ raw < MaxRaw
        /\ Dispatching([type |-> "MOVE_START", boxId |-> boxId])

NextStart == PointerEvent \/ DispatchMoveStart

InitStart == Init /\ variant \in {"M", "R"}

SpecStart == InitStart /\ [][NextStart]_vars

\* C26: a MoveStart(ids) whose ids is empty or holds an id that is not
\* registered is ignored: the state is unchanged (drag stays absent).  So in
\* every reachable state with drag present drag.ids is non-empty.
C26_BadMoveStartIgnored ==
    [][ ( /\ RawDispatched({"MOVE_START"})'
          /\ \/ dispatched'[1].boxId = <<>>
             \/ ~(Elems(dispatched'[1].boxId) \subseteq RegisteredIds(registry)) )
        => state' = state ]_vars

\* C27: in the collide-on-release variant, when a MoveEnd is dispatched during
\* a drag, the onMoveEnd callbacks are invoked before the registry rects are
\* re-measured and republished: at each callback the store still holds the
\* rects and the colliding ids it held before the release.
C27_OnMoveEndBeforeRemeasure ==
    [][ (variant = "R" /\ Dragging /\ Dispatched("MOVE_END")')
        => \A k \in 1..Len(calls') :
              calls'[k].fn = "onMoveEnd"
                 => /\ calls'[k].store.rects = state.rects
                    /\ calls'[k].store.collided = state.collided ]_vars

\* C28: in the marquee variant the marquee interpreter and the drag
\* interpreter are never active at the same time.
C28_MarqueeAndDragExclusive ==
    variant = "M" => ~(isDragging /\ stateRef = "MOVE")

\* the marquee interpreter is active
MarqueeActive == stateRef = "MOVE"

\* C29: in the marquee variant the stored rect snapshot is replaced only when
\* a marquee-start press is handled, by the rects of the registered boxes that
\* can be measured at that moment; from that press to the matching release no
\* move, press or registry change alters it.
C29_SnapshotOnlyAtMarqueeStart ==
    [][ /\ RectSnapshot(state') # RectSnapshot(state)
           => /\ lastEvent'.type = "mousedown"
              /\ lastEvent'.target = NoId
              /\ ~MarqueeActive /\ MarqueeActive'
        /\ (~MarqueeActive /\ MarqueeActive')
           => RectSnapshot(state') = snapshotRects(registry, hasRef, domRect, <<>>)
        /\ MarqueeActive
           => RectSnapshot(state') = RectSnapshot(state) ]_vars

\* C29 witness: while a marquee is active a box was unregistered and the
\* marquee was moved over it, and the snapshot still holds both boxes.
C29_Witness ==
    /\ variant = "M"
    /\ MarqueeActive
    /\ lastEvent.type = "mousemove"
    /\ Dispatched("CLICK")
    /\ Len(registry) < 2
    /\ Len(RectSnapshot(state)) = 2
    /\ state.clicked # <<>>

\* C30: right after MoveStart the drag offset is (0, 0); the press position of
\* a drag is recorded at its MoveStart and no later event of the drag, presses
\* included, changes it; after a pointer move at p has been handled during the
\* drag, the stored offset is p minus that press position, whatever moves and
\* drags came before.
C30_OffsetIsPointerMinusPress ==
    [][ /\ Dispatched("MOVE_START")'
           => /\ Dragging'
              /\ state'.moving.dx = 0 /\ state'.moving.dy = 0
              /\ lastEvent'.type = "mousedown"
              /\ dragStartOffset' = lastEvent'.p
        /\ (isDragging /\ ~Dispatched("MOVE_START")')
           => dragStartOffset' = dragStartOffset
        /\ (isDragging /\ lastEvent'.type = "mousemove")
           => /\ Dragging'
              /\ state'.moving.dx = lastEvent'.p.x - dragStartOffset.x
              /\ state'.moving.dy = lastEvent'.p.y - dragStartOffset.y ]_vars

\* C30 witness: a drag that was started by a press away from the origin has
\* been moved to the left of and above its press position.
C30_Witness ==
    /\ Dragging
    /\ lastEvent.type = "mousemove"
    /\ dragStartOffset.x > 0 /\ dragStartOffset.y > 0
    /\ state.moving.dx < 0
    /\ state.moving.dy < 0

-----------------------------------------------------------------------------

\* The dispatches in progress after the calls of log, innermost last, and what
\* was seen on the way: ok (every return is that of the innermost dispatch),
\* depth (the deepest nesting), repeat (a dispatch of a type was entered while
\* one of the same type was in progress), nested (the types dispatched from
\* inside another dispatch).
RECURSIVE Walk(_, _, _)
Walk(log, stack, seen) ==
    IF log = <<>> THEN [seen EXCEPT !.open = stack]
    ELSE LET type == Head(log)[2]
         IN  IF Head(log)[1] = "enter"
             THEN Walk(Tail(log), Append(stack, type),
                       [seen EXCEPT !.depth = IF Len(stack) + 1 > @ THEN Len(stack) + 1 ELSE @,
                                    !.repeat = @ \/ Has(stack, type),
                                    !.nested = IF stack = <<>> THEN @ ELSE @ \cup {type}])
             ELSE IF stack # <<>> /\ stack[Len(stack)] = type
             THEN Walk(Tail(log), SubSeq(stack, 1, Len(stack) - 1), seen)
             ELSE Walk(Tail(log), stack, [seen EXCEPT !.ok = FALSE])

Walked(log) ==
    Walk(log, <<>>, [ok |-> TRUE, depth |-> 0, repeat |-> FALSE, nested |-> {}, open |-> <<>>])

\* the actions the stages dispatch
StageActions == {"SET_COLLISION_STATE", "UPDATE_RECTS", "SET_COLLIDED", "SET_RECT_MAP"}

\* C31: every top-level dispatch terminates: the dispatches the stages issue
\* while it runs are of the stages' own action types, nest to a bounded depth,
\* never enter a dispatch of a type that is already in progress, and have all
\* returned when the top-level dispatch returns.
C31_DispatchTerminates ==
    LET seen == Walked(dispatchLog)
    IN  /\ seen.ok
        /\ ~seen.repeat
        /\ seen.depth <= 3
        /\ seen.nested \subseteq StageActions
        /\ err = "none" => seen.open = <<>>

\* C31 witness: a release dispatched MOVE_END, inside it UPDATE_RECTS and inside
\* that SET_COLLIDED were dispatched, and all three returned.
C31_Witness ==
    /\ err = "none"
    /\ Walked(dispatchLog).depth = 3
    /\ Walked(dispatchLog).open = <<>>
    /\ dispatchLog[Len(dispatchLog)] = <<"return", "MOVE_END">>

\* what the render callback of box id receives in the multi-select variants
RenderProps(id) ==
    IF variant = "M" THEN mapState_M(state, id) ELSE mapState_R(state, id)

\* C32: in the multi-select variants, for every box, the offset handed to its
\* render callback is (drag.dx, drag.dy) if drag is present and the box's id is
\* in drag.ids, and (0, 0) otherwise; isSelected is true exactly when the id is
\* in selected.
C32_RenderOffsetAndSelected ==
    (variant \in {"M", "R"})
        => \A id \in Ids :
              /\ RenderProps(id).offset =
                    IF Dragging /\ id \in DragIds
                    THEN [x |-> state.moving.dx, y |-> state.moving.dy]
                    ELSE ZeroPoint
              /\ RenderProps(id).clicked = (id \in Selected)

\* C32 witness: a drag of one selected box has been moved; its render callback
\* gets the offset, that of the other box gets (0, 0).
C32_Witness ==
    /\ variant \in {"M", "R"}
    /\ Dragging
    /\ DragIds = {"1"}
    /\ state.moving.dx # 0
    /\ RenderProps("1").offset.x = state.moving.dx
    /\ RenderProps("0").offset = ZeroPoint
    /\ RenderProps("1").clicked /\ ~RenderProps("0").clicked

\* C33: in the single-select collision variant no pointer event raises an
\* error; the boxes that cannot be measured at the press are left out of the
\* snapshot; if the dragged box has no rect in the snapshot the collision flag
\* stays false for the whole drag; and the flag never counts a box that is not
\* in the snapshot (it is the overlap of the dragged rect with a snapshotted one).
C33_UnmeasurableBoxIsSkipped ==
    [][ (variant = "S")
        => /\ err' = "none"
           /\ Dispatched("MOVE_START")'
                 => MapKeys(RectSnapshot(state')) = hasRef \cap RegisteredIds(registry)
           /\ Dragging'
                 => /\ state'.moving.collision = CollidesAt(state'.moving)
                    /\ ~MapHas(state'.moving.rects, state'.moving.boxId)
                          => ~state'.moving.collision ]_vars

\* C33 witness: a box that was not measurable at the press is being dragged and
\* has been moved to where its element overlaps the other box, which is in the
\* snapshot; the collision flag is false.
C33_Witness ==
    /\ variant = "S"
    /\ Dragging
    /\ lastEvent.type = "mousemove"
    /\ Dispatched("MOVE")
    /\ ~MapHas(state.moving.rects, state.moving.boxId)
    /\ Len(state.moving.rects) = 1
    /\ \E other \in MapKeys(state.moving.rects) :
          PositiveOverlap(Translate(domRect[state.moving.boxId],
                                    state.moving.dx, state.moving.dy),
                          MapGet(state.moving.rects, other))
    /\ ~state.moving.collision

\* C34: in every drag-capable variant, after every pointer event has been
\* handled, the drag interpreter is in its Dragging state if and only if drag
\* is present in the interaction state.
C34_InterpreterMatchesState == isDragging <=> Dragging

\* C34 witness: a drag is under way and has just been moved off its press position.
C34_Witness ==
    /\ isDragging /\ Dragging
    /\ lastEvent.type = "mousemove"
    /\ state.moving.dx # 0
    /\ \E k \in 1..Len(dispatchLog) : dispatchLog[k] = <<"enter", "MOVE">>

\* C35: in the multi-select variants, when a press on a box starts a drag, the
\* Select of that press is applied before the MoveStart: drag.ids of the new
\* drag is non-empty, contains the pressed box and equals the selection as it
\* stands after the press.
C35_SelectBeforeMoveStart ==
    [][ ((variant \in {"M", "R"}) /\ Dispatched("MOVE_START")')
        => /\ \E i, j \in 1..Len(dispatched') :
                 /\ i < j
                 /\ dispatched'[i].type \in {"CLICK", "SET_CLICKED"}
                 /\ dispatched'[j].type = "MOVE_START"
           /\ Dragging'
           /\ state'.moving.boxId # <<>>
           /\ Has(state'.moving.boxId, lastEvent'.target)
           /\ state'.moving.boxId = state'.clicked ]_vars

\* C35 witness: a shift-press on box 1 while box 0 was selected started a drag
\* of both.
C35_Witness ==
    /\ variant \in {"M", "R"}
    /\ lastEvent.type = "mousedown"
    /\ lastEvent.target = "1"
    /\ Dispatched("MOVE_START")
    /\ Dragging
    /\ state.moving.boxId = <<"0", "1">>

\* C36: in the single-select collision variant no sequence of pointer events
\* makes the collision stage raise 'Should be in moving state' or read the
\* rect snapshot of an absent drag (a TypeError).
C36_CollisionStageNeverThrows ==
    (variant = "S") => err \notin {"Should be in moving state", "TypeError"}

\* C36 witness: the collision stage ran for a move of a drag and dispatched its
\* result, after a box was unregistered during the drag.
C36_Witness ==
    /\ variant = "S"
    /\ err = "none"
    /\ lastEvent.type = "mousemove"
    /\ Len(registry) < 2
    /\ \E k \in 1..Len(dispatchLog) : dispatchLog[k] = <<"return", "SET_COLLISION_STATE">>

\* a list that holds no id twice
NoRepeat(ids) == \A i, j \in 1..Len(ids) : ids[i] = ids[j] => i = j

\* C37: in the multi-select variants the selected list never holds the same
\* id twice, whatever sequence of Select actions is applied, lists of ids
\* with repeats included.
C37_SelectedHasNoRepeat ==
    (variant \in {"M", "R"}) => NoRepeat(state.clicked)

\* C37 witness: an additive Select whose list names one id twice was applied
\* to a selection that held another id.
C37_Witness ==
    /\ RawDispatched({"CLICK", "SET_CLICKED"})
    /\ raw = 2
    /\ dispatched[1].multiple
    /\ dispatched[1].kind = "array"
    /\ dispatched[1].boxId = <<"1", "1">>
    /\ state.clicked = <<"0", "1">>

-----------------------------------------------------------------------------
(* The reducer of a multi-select variant called as a function: each call   *)
(* gets the state the call before returned, starting with the default      *)
(* state, and an action of any type.                                       *)

MaxReduces == 3

\* the action createStore sends first; no branch of a reducer names its type
InitAction == [type |-> "@@redux/INIT"]

\* the actions of ReduxAction other than Select, and InitAction
ReducerActions(v) ==
    {InitAction, [type |-> "MOVE_END"]}
        \cup {[type |-> "MOVE", dx |-> p.x, dy |-> p.y] : p \in Points}
        \cup {[type |-> "MOVE_START", boxId |-> ids] : ids \in SelectIds}
        \cup {[type |-> IF v = "M" THEN "SET_RECT_MAP" ELSE "UPDATE_RECTS", rects |-> r] :
                 r \in {<<>>, snapshotRects(registry, hasRef, domRect, <<>>)}}
        \cup (IF v = "R"
              THEN {[type |-> "SET_COLLIDED", collided |-> c] :
                        c \in {<<>>, <<"0">>, <<"0", "1">>}}
              ELSE {[type |-> "PUBLISH_RECT_MAP"]})

\* state = reducer(state, action)
Reducing(action) ==
    /\ raw < MaxReduces
    /\ raw' = raw + 1
    /\ lastEvent' = Event("reduce", NoId, ZeroPoint, FALSE)
    /\ state' = IF variant = "M" THEN ReduxReducer_M(state, action)
                ELSE reducer_R(state, action)
    /\ dispatched' = <<action>>
    /\ dispatchLog' = <<>>
    /\ UNCHANGED <<variant, isDragging, dragStartOffset, stateRef,
                   originMousePositionRef, registry, hasRef, domRect, calls, err,
                   gestureOpen, style, overlapCall>>

ReduceSelect ==
    \E kind \in SelectKinds(variant), multiple \in BOOLEAN :
        \E boxId \in SelectBoxIds(kind) :
            Reducing(ClickAction(IF variant = "M" THEN "CLICK" ELSE "SET_CLICKED",
                                 kind, boxId, multiple))

ReduceOther == \E action \in ReducerActions(variant) : Reducing(action)

NextReduce == ReduceSelect \/ ReduceOther

InitReduce == Init /\ variant \in {"M", "R"} /\ domRect = SideBySide

SpecReduce == InitReduce /\ [][NextReduce]_vars

\* the offset of the drag, <<>> without a drag
DragOffset(st) == IF st.moving = Undefined THEN <<>> ELSE <<st.moving.dx, st.moving.dy>>

\* the last step was a call of the reducer with an action of one of these types
Reduced(types) ==
    /\ lastEvent.type = "reduce"
    /\ dispatched[1].type \in types

\* C38: each reducer action changes only its own fields: Select leaves the
\* drag, the rect snapshot and the collision result unchanged; MoveStart, Move
\* and MoveEnd leave selected unchanged; SetRectSnapshot and SetCollisions
\* leave selected, the drag ids and the drag offset unchanged; an action of
\* unknown type leaves the whole state unchanged.
C38_ReducerFrame ==
    [][ /\ Reduced({"CLICK", "SET_CLICKED"})'
            => [state' EXCEPT !.clicked = state.clicked] = state
        /\ Reduced({"MOVE_START", "MOVE", "MOVE_END"})'
            => state'.clicked = state.clicked
        /\ Reduced({"SET_RECT_MAP", "UPDATE_RECTS", "SET_COLLIDED"})'
            => /\ state'.clicked = state.clicked
               /\ DragIdsOf(state'.moving) = DragIds
               /\ DragOffset(state') = DragOffset(state)
        /\ Reduced({"@@redux/INIT", "PUBLISH_RECT_MAP"})'
            => state' = state ]_vars

\* C38 witness: the rect snapshot was replaced while two boxes were being
\* dragged off their start position.
C38_Witness ==
    /\ Reduced({"SET_RECT_MAP", "UPDATE_RECTS"})
    /\ state.rects # <<>>
    /\ DragIds = Ids
    /\ DragOffset(state) # <<0, 0>>

\* the reducer of the running variant
reducerOf(st, action) ==
    IF variant = "S" THEN ReduxReducer_S(st, action)
    ELSE IF variant = "M" THEN ReduxReducer_M(st, action)
    ELSE reducer_R(st, action)

\* the drag without its collision flag
DragOf(st) ==
    IF st.moving = Undefined THEN Undefined
    ELSE [f \in DOMAIN st.moving \ {"collision"} |-> st.moving[f]]

\* C39: during a drag the reducer applied to a Move twice in succession
\* returns the state it returns when applied once, and so the drag left in
\* the store by a Move that the responder stage forwarded twice is the drag
\* of one application of the reducer.
C39_MoveTwiceIsMoveOnce ==
    [][ ( /\ lastEvent'.type = "mousemove"
          /\ Dragging
          /\ Dispatched("MOVE")' )
        => LET once == reducerOf(state, dispatched'[1])
           IN  /\ dispatched'[1].type = "MOVE"
               /\ reducerOf(once, dispatched'[1]) = once
               /\ DragOf(state') = DragOf(once) ]_vars

\* C39 witness: in a variant whose responder stage forwards a Move twice, a
\* Move went through the store during a drag, onMove was called and the drag
\* has the offset of the Move.
C39_Witness ==
    /\ variant \in {"S", "M"}
    /\ lastEvent.type = "mousemove"
    /\ Dispatched("MOVE")
    /\ \E k \in 1..Len(dispatchLog) : dispatchLog[k] = <<"return", "MOVE">>
    /\ \E k \in 1..Len(calls) : calls[k].fn = "onMove"
    /\ DragOffset(state) = <<0, 2>>

====
